---- MODULE Spec2Model ----
(***************************************************************************)
(* Model of cloudevents.pydantic.v2.event.CloudEvent: one event object,    *)
(* its construction, and the attribute set / delete / read operations.     *)
(*                                                                         *)
(* A Python value is a record [t |-> type tag, v |-> text of the value].    *)
(* A Python dict with string keys is a function from a finite set of       *)
(* strings to values.  The object holds two dicts, as a pydantic v2 model   *)
(* with extra="allow" does: dict (the instance __dict__, declared fields    *)
(* only) and extra (__pydantic_extra__, every other key).                   *)
(***************************************************************************)
EXTENDS Integers, FiniteSets, Sequences, TLC

VARIABLES pc, dict, extra, last, ops

vars == <<pc, dict, extra, last, ops>>

(* Bound on the number of operations applied to one constructed event. *)
MaxOps == 2

------------------------------------------------------------------------------
(* Values *)

NoneV == [t |-> "none", v |-> ""]
Str(s) == [t |-> "str", v |-> s]
Number(s) == [t |-> "int", v |-> s]
Boolean(s) == [t |-> "bool", v |-> s]
Bytes(s) == [t |-> "bytes", v |-> s]
Dict(s) == [t |-> "dict", v |-> s]
Datetime(s) == [t |-> "datetime", v |-> s]
SpecVersion(s) == [t |-> "SpecVersion", v |-> s]

EmptyMap == [k \in {} |-> NoneV]

Merge(f, g) ==
    [k \in (DOMAIN f) \cup (DOMAIN g) |-> IF k \in DOMAIN g THEN g[k] ELSE f[k]]

Without(f, ks) == [k \in (DOMAIN f) \ ks |-> f[k]]

One(k, v) == [x \in {k} |-> v]

------------------------------------------------------------------------------
(* Library conversions the class calls *)

(* str.lower() on the keys that occur in the inputs *)
lower(k) ==
    CASE k = "Source" -> "source"
      [] k = "TIME" -> "time"
      [] k = "Ext1" -> "ext1"
      [] k = "DATA_BASE64" -> "data_base64"
      [] OTHER -> k

(* base64.b64decode: text -> bytes, failing on text that is not base64 *)
B64Text == {"eHl6", "aGk="}

b64decode(v) ==
    IF v.t # "str" THEN [err |-> "TypeError", val |-> NoneV]
    ELSE IF v.v = "eHl6" THEN [err |-> "none", val |-> Bytes("xyz")]
    ELSE IF v.v = "aGk=" THEN [err |-> "none", val |-> Bytes("hi")]
    ELSE [err |-> "binascii.Error", val |-> NoneV]

(* base64.b64encode(...).decode("ascii"): bytes -> text *)
b64encode(v) ==
    IF v.v = "xyz" THEN Str("eHl6")
    ELSE IF v.v = "hi" THEN Str("aGk=")
    ELSE Str("")

(* datetime parsing of the time field, and datetime.isoformat() *)
TimeText == {"2018-04-05T17:31:00Z", "2018-04-05T17:31:00+00:00",
             "2023-09-01T10:00:00+00:00", "2023-09-01T10:00:01+00:00"}

parse_datetime(s) ==
    CASE s = "2018-04-05T17:31:00Z" -> Datetime("2018-04-05 17:31:00 UTC")
      [] s = "2018-04-05T17:31:00+00:00" -> Datetime("2018-04-05 17:31:00 UTC")
      [] s = "2023-09-01T10:00:00+00:00" -> Datetime("2023-09-01 10:00:00 UTC")
      [] s = "2023-09-01T10:00:01+00:00" -> Datetime("2023-09-01 10:00:01 UTC")
      [] OTHER -> NoneV

isoformat(d) ==
    CASE d.v = "2018-04-05 17:31:00 UTC" -> Str("2018-04-05T17:31:00+00:00")
      [] d.v = "2023-09-01 10:00:00 UTC" -> Str("2023-09-01T10:00:00+00:00")
      [] d.v = "2023-09-01 10:00:01 UTC" -> Str("2023-09-01T10:00:01+00:00")
      [] OTHER -> Str("")

(* conversion.best_effort_encode_attribute_value *)
best_effort_encode_attribute_value(v) ==
    IF v.t = "SpecVersion" THEN Str(v.v)
    ELSE IF v.t = "datetime" THEN isoformat(v)
    ELSE v

(* attribute.default_id_selection_algorithm and                             *)
(* attribute.default_time_selection_algorithm: the n-th call in the process *)
default_id_selection_algorithm(n) ==
    IF n = 1 THEN Str("uuid-1") ELSE Str("uuid-2")

default_time_selection_algorithm(n) ==
    IF n = 1 THEN Datetime("2023-09-01 10:00:00 UTC")
    ELSE Datetime("2023-09-01 10:00:01 UTC")

DEFAULT_SPECVERSION == SpecVersion("1.0")

------------------------------------------------------------------------------
(* The declared fields and their validation *)

DeclaredFields ==
    {"data", "source", "id", "type", "specversion", "time", "subject",
     "datacontenttype", "dataschema"}

RequiredFields == {"source", "type"}

(* Validation of one supplied field value against the declared type:        *)
(* [ok, val], val being the value the instance stores.                      *)
validate_field(k, v) ==
    CASE k = "data" -> [ok |-> TRUE, val |-> v]
      [] k \in {"source", "id", "type"} -> [ok |-> v.t = "str", val |-> v]
      [] k = "specversion" ->
            IF v.t = "SpecVersion" THEN [ok |-> TRUE, val |-> v]
            ELSE IF v.t = "str" /\ v.v \in {"0.3", "1.0"}
                 THEN [ok |-> TRUE, val |-> SpecVersion(v.v)]
            ELSE [ok |-> FALSE, val |-> v]
      [] k = "time" ->
            IF v.t \in {"none", "datetime"} THEN [ok |-> TRUE, val |-> v]
            ELSE IF v.t = "str" /\ v.v \in TimeText
                 THEN [ok |-> TRUE, val |-> parse_datetime(v.v)]
            ELSE [ok |-> FALSE, val |-> v]
      [] OTHER -> [ok |-> v.t \in {"none", "str"}, val |-> v]

(* Defaults with the time left to be computed later *)
field_default_lazy(k, n) ==
    CASE k = "id" -> default_id_selection_algorithm(n)
      [] k = "specversion" -> DEFAULT_SPECVERSION
      [] OTHER -> NoneV

(* The value of a declared field that the input does not supply *)
field_default(k, n) ==
    CASE k = "id" -> default_id_selection_algorithm(n)
      [] k = "time" -> default_time_selection_algorithm(n)
      [] k = "specversion" -> DEFAULT_SPECVERSION
      [] OTHER -> NoneV

------------------------------------------------------------------------------
(* Construction *)

(* The validator decoding only when no payload was passed as data *)
check_base64_data_input_keep_data(data) ==
    IF /\ "data_base64" \in DOMAIN data /\ data["data_base64"] # NoneV
       /\ data["data"] = NoneV
    THEN LET dec == b64decode(data["data_base64"])
         IN  IF dec.err # "none"
             THEN [err |-> dec.err, data |-> data]
             ELSE [err |-> "none",
                   data |-> Without(Merge(data, One("data", dec.val)),
                                    {"data_base64"})]
    ELSE [err |-> "none", data |-> Without(data, {"data_base64"})]

(* The validator moving the base64 text to data without decoding it *)
check_base64_data_input_no_decode(data) ==
    IF "data_base64" \in DOMAIN data /\ data["data_base64"] # NoneV
    THEN [err |-> "none",
          data |-> Without(Merge(data, One("data", data["data_base64"])),
                           {"data_base64"})]
    ELSE [err |-> "none", data |-> data]

(* The class's "before" model validator, on the raw input mapping *)
check_base64_data_input(data) ==
    IF "data_base64" \in DOMAIN data /\ data["data_base64"] # NoneV
    THEN LET dec == b64decode(data["data_base64"])
         IN  IF dec.err # "none"
             THEN [err |-> dec.err, data |-> data]
             ELSE [err |-> "none",
                   data |-> Without(Merge(data, One("data", dec.val)),
                                    {"data_base64"})]
    ELSE [err |-> "none", data |-> data]

(* BaseModel.__init__ of a model with extra="allow": the before validator,  *)
(* then each declared field validated or defaulted into __dict__, and every *)
(* other key kept in __pydantic_extra__.                                    *)
model_init(values, n) ==
    LET pre == check_base64_data_input(values)
        d   == pre.data
        bad == {k \in DeclaredFields \cap DOMAIN d : ~validate_field(k, d[k]).ok}
    IN  IF pre.err # "none"
        THEN [err |-> pre.err, dict |-> EmptyMap, extra |-> EmptyMap]
        ELSE IF bad # {} \/ ~(RequiredFields \subseteq DOMAIN d)
        THEN [err |-> "ValidationError", dict |-> EmptyMap, extra |-> EmptyMap]
        ELSE [err |-> "none",
              dict |-> [k \in DeclaredFields |->
                          IF k \in DOMAIN d THEN validate_field(k, d[k]).val
                          ELSE field_default(k, n)],
              extra |-> Without(d, DeclaredFields)]

(* {k.lower(): v for k, v in attributes.items()}; the inputs of this model   *)
(* hold no two keys that differ in letter case only.                        *)
lower_keys(m) ==
    [k \in {lower(r) : r \in DOMAIN m} |->
        m[CHOOSE r \in DOMAIN m : lower(r) = k]]

(* __init__ that tests the mapping for None instead of for emptiness *)
init_not_none(attributes, data, kwargs, n) ==
    LET given == attributes.present
        kw == IF given THEN Merge(kwargs, lower_keys(attributes.map))
              ELSE kwargs
    IN  IF given /\ DOMAIN kwargs # {}
        THEN [err |-> "IncompatibleArgumentsError",
              dict |-> EmptyMap, extra |-> EmptyMap]
        ELSE IF "data" \in DOMAIN kw
        THEN [err |-> "TypeError", dict |-> EmptyMap, extra |-> EmptyMap]
        ELSE model_init(Merge(One("data", data), kw), n)

(* CloudEvent.__init__(attributes, data, **kwargs); attributes is           *)
(* [present |-> FALSE] for None.  n counts the constructions of the process. *)
init(attributes, data, kwargs, n) ==
    LET truthy == attributes.present /\ DOMAIN attributes.map # {}
        kw == IF truthy THEN Merge(kwargs, lower_keys(attributes.map))
              ELSE kwargs
    IN  IF truthy /\ DOMAIN kwargs # {}
        THEN [err |-> "IncompatibleArgumentsError",
              dict |-> EmptyMap, extra |-> EmptyMap]
        ELSE IF "data" \in DOMAIN kw
        THEN [err |-> "TypeError", dict |-> EmptyMap, extra |-> EmptyMap]
        ELSE model_init(Merge(One("data", data), kw), n)

------------------------------------------------------------------------------
(* Reads *)

(* The read without the exclusion of the payload *)
get_attributes_all(d) ==
    [k \in (DOMAIN d) \ {"base64_data"} |->
        best_effort_encode_attribute_value(d[k])]

get_attributes(d) ==
    [k \in (DOMAIN d) \ {"data", "base64_data"} |->
        best_effort_encode_attribute_value(d[k])]

get_data(d) == d["data"]

------------------------------------------------------------------------------
(* Mutations: [err, dict, extra] *)

(* setattr on the model: a declared field goes to __dict__, any other name  *)
(* to __pydantic_extra__; nothing is validated on assignment.               *)
model_setattr(d, x, key, value) ==
    IF key \in DeclaredFields
    THEN [err |-> "none", dict |-> Merge(d, One(key, value)), extra |-> x]
    ELSE [err |-> "none", dict |-> d, extra |-> Merge(x, One(key, value))]

(* delattr on the model *)
model_delattr(d, x, key) ==
    IF key \in DOMAIN d
    THEN [err |-> "none", dict |-> Without(d, {key}), extra |-> x]
    ELSE IF key \in DOMAIN x
    THEN [err |-> "none", dict |-> d, extra |-> Without(x, {key})]
    ELSE [err |-> "AttributeError", dict |-> d, extra |-> x]

(* The set without the special case of "data" *)
setitem_any(d, x, key, value) == model_setattr(d, x, key, value)

setitem(d, x, key, value) ==
    IF key # "data"
    THEN model_setattr(d, x, key, value)
    ELSE [err |-> "none", dict |-> d, extra |-> x]

(* The delete that removes extension keys only *)
delitem_extensions_only(d, x, key) ==
    IF key = "data" \/ key \in DOMAIN d
    THEN [err |-> "KeyError", dict |-> d, extra |-> x]
    ELSE model_delattr(d, x, key)

delitem(d, x, key) ==
    IF key = "data"
    THEN [err |-> "KeyError", dict |-> d, extra |-> x]
    ELSE model_delattr(d, x, key)

------------------------------------------------------------------------------
(* Structured-mode JSON *)

(* json.dumps / json.loads on one value: the JSON type of a Python value    *)
(* and back; bytes have no JSON type.                                       *)
JsonSerializable(v) == v.t \in {"none", "str", "int", "bool", "dict"}

json_dumps_value(v) ==
    CASE v.t = "none" -> [t |-> "null", v |-> v.v]
      [] v.t = "str" -> [t |-> "string", v |-> v.v]
      [] v.t = "int" -> [t |-> "number", v |-> v.v]
      [] v.t = "bool" -> [t |-> "boolean", v |-> v.v]
      [] OTHER -> [t |-> "object", v |-> v.v]

json_loads_value(j) ==
    CASE j.t = "null" -> NoneV
      [] j.t = "string" -> Str(j.v)
      [] j.t = "number" -> Number(j.v)
      [] j.t = "boolean" -> Boolean(j.v)
      [] OTHER -> Dict(j.v)

(* conversion.to_json(event): the attributes that are not null, and the     *)
(* payload as "data", or as "data_base64" when it is bytes, or left out     *)
(* when it is null.  [err, json].                                           *)
to_json(d) ==
    LET attrs == get_attributes(d)
        props == [k \in {a \in DOMAIN attrs : attrs[a] # NoneV} |-> attrs[k]]
        data  == get_data(d)
        body  == IF data = NoneV THEN props
                 ELSE IF data.t = "bytes"
                 THEN Merge(props, One("data_base64", b64encode(data)))
                 ELSE Merge(props, One("data", data))
    IN  IF \A k \in DOMAIN body : JsonSerializable(body[k])
        THEN [err |-> "none",
              json |-> [k \in DOMAIN body |-> json_dumps_value(body[k])]]
        ELSE [err |-> "TypeError", json |-> EmptyMap]

(* CloudEvent._ce_json_dumps: json.loads(conversion.to_json(self)) *)
ce_json_dumps(d) ==
    LET out == to_json(d)
    IN  [err |-> out.err,
         obj |-> [k \in DOMAIN out.json |-> json_loads_value(out.json[k])]]

NoAttributes == [present |-> FALSE, map |-> EmptyMap]

(* The parsed JSON object unpacked as keyword arguments of the             *)
(* constructor: "data" binds to the data                                  *)
(* parameter, every other member is a keyword argument.                     *)
from_json_object(obj, n) ==
    init(NoAttributes,
         IF "data" \in DOMAIN obj THEN obj["data"] ELSE NoneV,
         Without(obj, {"data"}), n)

(* serialize, then construct the event again from the parsed object *)
round_trip(d, n) ==
    LET out == ce_json_dumps(d)
    IN  IF out.err # "none"
        THEN [err |-> out.err, dict |-> EmptyMap, extra |-> EmptyMap]
        ELSE from_json_object(out.obj, n)

------------------------------------------------------------------------------
(* Inputs of the operations *)

SourceTypeInputs ==
    { EmptyMap,
      Merge(One("source", Str("s")), One("type", Str("t"))),
      Merge(One("Source", Str("s")), One("type", Str("t"))),
      One("source", Str("s")) }

IdInputs == { EmptyMap, One("id", Str("A234-1234-1234")) }

TimeInputs ==
    { EmptyMap, One("time", NoneV), One("TIME", Str("2018-04-05T17:31:00Z")) }

SpecversionInputs == { EmptyMap, One("specversion", Str("0.3")) }

ExtensionInputs == { EmptyMap, One("Ext1", Str("value")) }

DataKeyInputs == { EmptyMap, One("data", Str("in-mapping")) }

Base64Inputs ==
    { EmptyMap,
      One("data_base64", NoneV),
      One("data_base64", Str("eHl6")),
      One("DATA_BASE64", Str("aGk=")),
      One("data_base64", Str("not base64")) }

Payloads ==
    { NoneV, Str("hello"), Number("5"), Boolean("true"), Dict("{a: {b: 1}}"),
      Bytes("xyz") }

Modes == { "attributes", "kwargs", "empty attributes", "both" }

(* The arguments of one constructor call *)
Call(mode, m, payload) ==
    CASE mode = "attributes" ->
            [attributes |-> [present |-> TRUE, map |-> m],
             data |-> payload, kwargs |-> EmptyMap]
      [] mode = "kwargs" ->
            [attributes |-> NoAttributes,
             data |-> payload, kwargs |-> Without(m, {"data"})]
      [] mode = "empty attributes" ->
            [attributes |-> [present |-> TRUE, map |-> EmptyMap],
             data |-> payload, kwargs |-> Without(m, {"data"})]
      [] OTHER ->
            [attributes |-> [present |-> TRUE, map |-> m],
             data |-> payload, kwargs |-> One("type", Str("x"))]

NoCall == [attributes |-> NoAttributes, data |-> NoneV, kwargs |-> EmptyMap]

SetKeys == {"data", "time", "subject", "ext1", "data_base64"}

SetValues == { NoneV, Str("x"), Datetime("2018-04-05 17:31:00 UTC") }

DelKeys == {"data", "time", "id", "subject", "ext1"}

------------------------------------------------------------------------------
(* The state machine: one event object and the operations applied to it.   *)
(* last records the operation that produced the state, with its arguments   *)
(* and the error it raised.                                                 *)

Op(op, key, val, err, call) ==
    [op |-> op, key |-> key, val |-> val, err |-> err, call |-> call]

Init ==
    /\ pc = "new"
    /\ dict = EmptyMap
    /\ extra = EmptyMap
    /\ last = Op("none", "", NoneV, "none", NoCall)
    /\ ops = 0

Construct ==
    /\ pc = "new"
    /\ \E a \in SourceTypeInputs, b \in IdInputs, c \in TimeInputs,
          d \in SpecversionInputs, e \in ExtensionInputs, f \in DataKeyInputs,
          g \in Base64Inputs, payload \in Payloads, mode \in Modes :
          LET m == Merge(a, Merge(b, Merge(c, Merge(d, Merge(e, Merge(f, g))))))
              call == Call(mode, m, payload)
              r == init(call.attributes, call.data, call.kwargs, 1)
          IN  /\ pc' = IF r.err = "none" THEN "live" ELSE "failed"
              /\ dict' = r.dict
              /\ extra' = r.extra
              /\ last' = Op("construct", "", NoneV, r.err, call)
    /\ UNCHANGED ops

SetItem ==
    /\ pc = "live"
    /\ ops < MaxOps
    /\ \E key \in SetKeys, value \in SetValues :
          LET r == setitem(dict, extra, key, value)
          IN  /\ dict' = r.dict
              /\ extra' = r.extra
              /\ last' = Op("set", key, value, r.err, NoCall)
    /\ ops' = ops + 1
    /\ UNCHANGED pc

DelItem ==
    /\ pc = "live"
    /\ ops < MaxOps
    /\ \E key \in DelKeys :
          LET r == delitem(dict, extra, key)
          IN  /\ dict' = r.dict
              /\ extra' = r.extra
              /\ last' = Op("delete", key, NoneV, r.err, NoCall)
    /\ ops' = ops + 1
    /\ UNCHANGED pc

RoundTrip ==
    /\ pc = "live"
    /\ ops < MaxOps
    /\ LET r == round_trip(dict, 2)
       IN  /\ dict' = IF r.err = "none" THEN r.dict ELSE dict
           /\ extra' = IF r.err = "none" THEN r.extra ELSE extra
           /\ last' = Op("round trip", "", NoneV, r.err, NoCall)
    /\ ops' = ops + 1
    /\ UNCHANGED pc

Next == Construct \/ SetItem \/ DelItem \/ RoundTrip

Spec == Init /\ [][Next]_vars

------------------------------------------------------------------------------
(* Vocabulary of the properties *)

Attrs == get_attributes(dict)

Constructed == last.op = "construct" /\ pc = "live"

MappingGiven ==
    last.call.attributes.present /\ DOMAIN last.call.attributes.map # {}

(* The values the constructor call carries for the attribute named k: in    *)
(* the mapping under any spelling of k, or as the keyword k.                *)
Carried(k) ==
    { last.call.attributes.map[r] :
        r \in {q \in DOMAIN last.call.attributes.map : lower(q) = k} }
    \cup { last.call.kwargs[q] : q \in {k} \cap DOMAIN last.call.kwargs }

------------------------------------------------------------------------------
(* C1: construction raises IncompatibleArgumentsError exactly when a        *)
(* non-empty attribute mapping comes together with at least one keyword     *)
(* argument, and then no event exists; an empty or absent mapping with      *)
(* keyword arguments does not raise it.                                     *)
C1_IncompatibleArguments ==
    last.op = "construct" =>
        /\ (last.err = "IncompatibleArgumentsError")
              <=> (MappingGiven /\ DOMAIN last.call.kwargs # {})
        /\ last.err = "IncompatibleArgumentsError"
              => pc = "failed" /\ dict = EmptyMap /\ extra = EmptyMap

C1_Witness ==
    /\ last.op = "construct"
    /\ last.err = "IncompatibleArgumentsError"
    /\ "source" \in DOMAIN last.call.attributes.map

(* C2: a construction that carries a non-null data_base64 value, in the     *)
(* mapping under any letter case or as a keyword, yields an event whose     *)
(* payload is the decoded bytes of that value whatever was passed as data,  *)
(* and that keeps no data_base64 key.                                       *)
C2_Base64Decoded ==
    Constructed =>
        \A b \in Carried("data_base64") :
            b # NoneV =>
                /\ b64decode(b).err = "none"
                /\ get_data(dict) = b64decode(b).val
                /\ "data_base64" \notin DOMAIN Attrs
                /\ "data_base64" \notin DOMAIN extra

C2_Witness ==
    /\ Constructed
    /\ MappingGiven
    /\ "DATA_BASE64" \in DOMAIN last.call.attributes.map
    /\ last.call.data = Str("hello")
    /\ get_data(dict) = Bytes("hi")

(* What an attribute read returns for a value v supplied for the key k *)
ReadBack(k, v) ==
    IF k = "time" /\ v.t = "str" THEN isoformat(parse_datetime(v.v)) ELSE v

Filled == {"id", "time", "specversion"}

(* C3: for a valid attribute mapping A that holds source and type (mixed-   *)
(* case keys, extension keys, data and data_base64 keys allowed),           *)
(* construction succeeds and the attribute read returns A with lowercase    *)
(* keys, id, time and specversion filled in, data and data_base64 left out; *)
(* every extension key of A is read back with its value.                    *)
C3_MappingReadBack ==
    ( /\ last.op = "construct"
      /\ MappingGiven
      /\ DOMAIN last.call.kwargs = {}
      /\ Carried("source") # {} /\ Carried("type") # {}
      /\ \A b \in Carried("data_base64") : b = NoneV \/ b.v \in B64Text )
    => /\ pc = "live"
       /\ Filled \subseteq DOMAIN Attrs
       /\ DOMAIN Attrs \cap {"data", "data_base64"} = {}
       /\ \A r \in DOMAIN last.call.attributes.map :
             lower(r) \notin {"data", "data_base64"} =>
                /\ lower(r) \in DOMAIN Attrs
                /\ Attrs[lower(r)] = ReadBack(lower(r), last.call.attributes.map[r])

(* C4: id, time and specversion absent from the input are filled in at     *)
(* construction by the default-id algorithm, the default-time algorithm    *)
(* and the constant "1.0"; a supplied one keeps the supplied value; and    *)
(* afterwards each changes only by a set or delete of that very key.       *)
C4_FilledAtConstruction ==
    Constructed =>
        /\ Filled \subseteq DOMAIN dict
        /\ Carried("id") = {} => dict["id"] = default_id_selection_algorithm(1)
        /\ Carried("time") = {} =>
              dict["time"] = default_time_selection_algorithm(1)
        /\ Carried("specversion") = {} => Attrs["specversion"] = Str("1.0")
        /\ \A k \in Filled : \A v \in Carried(k) : Attrs[k] = ReadBack(k, v)

C4_ChangedOnlyByItsKey ==
    (pc = "live" /\ last'.op # "round trip") =>
        \A k \in Filled \cap DOMAIN Attrs :
            (k \notin DOMAIN get_attributes(dict')
                \/ get_attributes(dict')[k] # Attrs[k])
            => last'.op \in {"set", "delete"} /\ last'.key = k

(* C4: the filling at construction and the stability afterwards *)
C4_Defaults == []C4_FilledAtConstruction /\ [][C4_ChangedOnlyByItsKey]_vars

C4_Witness ==
    /\ last.op = "set"
    /\ last.key = "ext1"
    /\ dict["id"] = default_id_selection_algorithm(1)
    /\ dict["time"] = default_time_selection_algorithm(1)
    /\ dict["specversion"] = DEFAULT_SPECVERSION

(* C5, as claimed: in every state after a successful construction and any   *)
(* sets and deletes, the attribute read has no data and no data_base64 key, *)
(* and the event never holds a payload and a data_base64 value together.    *)
HoldsBase64(d, x) ==
    \E m \in {d, x} : "data_base64" \in DOMAIN m /\ m["data_base64"] # NoneV

(* C5, as claimed, of every state of a constructed event *)
C5_NeverBoth ==
    pc = "live" =>
        /\ DOMAIN Attrs \cap {"data", "data_base64"} = {}
        /\ ~(get_data(dict) # NoneV /\ HoldsBase64(dict, extra))

(* C5, amended: the attribute read never has a data or data_base64 key, and *)
(* the event comes to hold a data_base64 value only by an attribute set of  *)
(* the key data_base64, never by construction.                              *)
C5_NoDataKeys ==
    pc = "live" => DOMAIN Attrs \cap {"data", "data_base64"} = {}

C5_Base64OnlyBySet ==
    (~HoldsBase64(dict, extra) /\ HoldsBase64(dict', extra'))
        => last'.op = "set" /\ last'.key = "data_base64"

(* C5, amended: both parts *)
C5_Amended == []C5_NoDataKeys /\ [][C5_Base64OnlyBySet]_vars

C5_Witness ==
    /\ pc = "live"
    /\ last.op = "set"
    /\ last.key = "data_base64"
    /\ get_data(dict) = Bytes("xyz")
    /\ HoldsBase64(dict, extra)
    /\ "data_base64" \notin DOMAIN Attrs

(* C6: setting the key "data" through the attribute-set path raises        *)
(* nothing and changes nothing: same payload, same attribute read.          *)
C6_SetDataStep ==
    (pc = "live" /\ last'.op = "set" /\ last'.key = "data") =>
        /\ last'.err = "none"
        /\ get_data(dict') = get_data(dict)
        /\ get_attributes(dict') = Attrs
        /\ dict' = dict /\ extra' = extra

(* C6: every set of "data" is such a step *)
C6_SetDataIgnored == [][C6_SetDataStep]_vars

C6_Witness ==
    /\ last.op = "set"
    /\ last.key = "data"
    /\ last.val = Str("x")
    /\ get_data(dict) = Str("hello")

(* C7: a delete that fails, fails with KeyError, be the key "data" or a    *)
(* key that is not present, and leaves the event as it was.                 *)
C7_DeleteFailsWithKeyError ==
    (last.op = "delete" /\ last.err # "none") => last.err = "KeyError"

(* C8, as claimed: any event, serialized to structured-mode JSON and        *)
(* constructed again from the parsed object, has the same attribute read    *)
(* and the same payload.                                                    *)
SameAfterRoundTrip(d) ==
    LET r == round_trip(d, 2)
    IN  /\ r.err = "none"
        /\ get_attributes(r.dict) = get_attributes(d)
        /\ get_data(r.dict) = get_data(d)

(* C8, as claimed, of every event *)
C8_RoundTrip == pc = "live" => SameAfterRoundTrip(dict)

(* C8, amended: the round trip reproduces the attribute read and the        *)
(* payload of every event that holds all its declared attributes with       *)
(* values of their declared types and a time that is a timestamp, not null. *)
WellTyped(d) ==
    /\ DeclaredFields \subseteq DOMAIN d
    /\ \A k \in {"source", "id", "type"} : d[k].t = "str"
    /\ d["specversion"].t = "SpecVersion"
    /\ d["time"].t = "datetime"
    /\ \A k \in {"subject", "datacontenttype", "dataschema"} :
          d[k].t \in {"none", "str"}

(* C8, amended, of every well-typed event *)
C8_RoundTripWellTyped ==
    (pc = "live" /\ WellTyped(dict)) => SameAfterRoundTrip(dict)

C8_Witness ==
    /\ pc = "live"
    /\ last.op = "round trip"
    /\ last.err = "none"
    /\ WellTyped(dict)
    /\ get_data(dict) = Bytes("xyz")
    /\ dict["id"] = Str("A234-1234-1234")

(* C9: setting a key other than "data" to a value makes the attribute read  *)
(* map the key to the encoded value, whether the key is a declared field or *)
(* an extension, and leaves the other attributes and the payload alone.     *)
C9_SetStep ==
    (pc = "live" /\ last'.op = "set" /\ last'.key # "data") =>
        /\ last'.err = "none"
        /\ last'.key \in DOMAIN get_attributes(dict')
        /\ get_attributes(dict')[last'.key]
              = best_effort_encode_attribute_value(last'.val)
        /\ \A k \in (DOMAIN Attrs) \ {last'.key} :
              k \in DOMAIN get_attributes(dict')
                 /\ get_attributes(dict')[k] = Attrs[k]
        /\ get_data(dict') = get_data(dict)

(* C9: every set of another key is such a step *)
C9_SetReadBack == [][C9_SetStep]_vars

(* C10: deleting a present key other than "data", declared or extension,    *)
(* succeeds, takes the key out of the event and of the attribute read,      *)
(* leaves everything else alone, and the key comes back into the attribute  *)
(* read only by a set of that key.                                          *)
Present(k) == k \in (DOMAIN dict) \cup (DOMAIN extra)

C10_DeleteStep ==
    (pc = "live" /\ last'.op = "delete" /\ last'.key # "data"
        /\ Present(last'.key)) =>
        /\ last'.err = "none"
        /\ last'.key \notin DOMAIN get_attributes(dict')
        /\ last'.key \notin (DOMAIN dict') \cup (DOMAIN extra')
        /\ dict' = Without(dict, {last'.key})
        /\ extra' = Without(extra, {last'.key})
        /\ get_attributes(dict') = Without(Attrs, {last'.key})
        /\ get_data(dict') = get_data(dict)

C10_BackOnlyBySet ==
    (pc = "live" /\ last'.op # "round trip") =>
        \A k \in (DOMAIN get_attributes(dict')) \ DOMAIN Attrs :
            last'.op = "set" /\ last'.key = k

(* C10: every step is such a step *)
C10_DeleteRemoves == [][C10_DeleteStep /\ C10_BackOnlyBySet]_vars

C10_Witness ==
    /\ last.op = "delete"
    /\ last.key = "time"
    /\ last.err = "none"
    /\ "time" \notin DOMAIN Attrs
    /\ "ext1" \in DOMAIN extra

C10_WitnessExtension ==
    /\ last.op = "delete"
    /\ last.key = "ext1"
    /\ last.err = "none"
    /\ ~Present("ext1")

====
